---------------------------- MODULE Spec2Model ----------------------------
(***************************************************************************)
(* Model of src/api.py: a FastAPI service over one SQLite table, personas. *)
(* Every handler is a plain `def`, so the framework runs requests on a     *)
(* thread pool and their statements interleave.  Each request owns one     *)
(* SQLite connection; a statement (with the commit that follows a write)   *)
(* is one atomic step against the table, the interleaving unit SQLite's    *)
(* file lock gives.  Writers waiting for the lock are assumed to get it    *)
(* within the connection timeout.                                          *)
(*                                                                         *)
(* A request's parameters and body are private to its thread until the     *)
(* first statement uses them, so the model draws them in the step that     *)
(* runs that statement.  `ultima` is the service's output: the response    *)
(* returned by the step just taken, or no response if that step returned   *)
(* none.                                                                   *)
(*                                                                         *)
(* A nullable value (a SQL column value, a Python Optional) is a sequence: *)
(* <<>> is NULL / None and <<v>> is the value v.                           *)
(* Ages stay inside SQLite's 64-bit INTEGER range.                         *)
(***************************************************************************)
EXTENDS Integers, Sequences, FiniteSets

\* ---------------------------------------------------------------- bounds
\* Number of request slots (threads of the pool serving requests at once).
NReq == 2
\* Largest id the model lets AUTOINCREMENT hand out.
MaxId == 2
\* Largest skip / limit query parameter tried (the smallest tried is 0).
MaxSkip == 2
MaxLimit == 2

Reqs == 1..NReq
Ids == 1..MaxId

\* Request bodies tried.
Nombres == {"", "Ana"}
Edades == {30, 31}
Puestos == {"", "Dev"}
Campos == {"nombre", "edad", "puesto"}

None == <<>>
Some(v) == <<v>>

\* ------------------------------------------------------------ data model
\* PersonaCreate: three required fields (pydantic rejects a missing or null
\* one; it accepts the empty string).
PersonaCreate ==
    { [nombre |-> Some(n), edad |-> Some(e), puesto |-> Some(p), fields_set |-> Campos] :
        n \in Nombres, e \in Edades, p \in Puestos }

\* PersonaUpdate: three Optional fields defaulting to None; fields_set is the
\* set of fields the body supplied (a supplied field may be null).
UpdateNombres == {None, Some("Ana")}
UpdateEdades == {Some(30), Some(31)}
UpdatePuestos == {None, Some("")}
PersonaUpdate ==
    { [nombre |-> IF "nombre" \in S THEN n ELSE None,
       edad |-> IF "edad" \in S THEN e ELSE None,
       puesto |-> IF "puesto" \in S THEN p ELSE None,
       fields_set |-> S] :
        S \in SUBSET Campos, n \in UpdateNombres, e \in UpdateEdades, p \in UpdatePuestos }

NoBody == [nombre |-> None, edad |-> None, puesto |-> None, fields_set |-> {}]

\* Persona(id=..., nombre=..., edad=..., puesto=...)
Persona(id, nombre, edad, puesto) ==
    [id |-> id, nombre |-> nombre, edad |-> edad, puesto |-> puesto]

VARIABLES
    personas,   \* the table: rowid -> [nombre, edad, puesto]
    secuencia,  \* sqlite_sequence.seq of the table: the largest rowid ever used
    req,        \* per request slot: the frame of the handler it is running
    ultima,     \* the response the last step returned (with its request), if any
    intacto,    \* history: id -> the body it was created from, while no update
                \* or delete statement has been run on the id
    asignados,  \* history: every id a create has been given
    eliminados  \* history: every id a delete has reported as deleted

vars == <<personas, secuencia, req, ultima, intacto, asignados, eliminados>>

\* ------------------------------------------------------------- SQLite
Max(a, b) == IF a >= b THEN a ELSE b
Min(a, b) == IF a <= b THEN a ELSE b

MaxRowid(t) == IF DOMAIN t = {} THEN 0 ELSE CHOOSE i \in DOMAIN t : \A j \in DOMAIN t : j <= i

\* The rowid a plain INTEGER PRIMARY KEY would pick: one more than the largest
\* rowid now in the table.
NextRowidSinAutoincrement(t, seq) == MaxRowid(t) + 1

\* id INTEGER PRIMARY KEY AUTOINCREMENT: one more than the largest rowid the
\* table has ever held (sqlite_sequence), never a rowid used before.
NextRowid(t, seq) == Max(seq, MaxRowid(t)) + 1

\* A table declared without the NOT NULL constraints.
NotNullOkSinRestriccion(row) == TRUE

\* nombre TEXT NOT NULL, edad INTEGER NOT NULL, puesto TEXT NOT NULL
NotNullOk(row) == row.nombre # None /\ row.edad # None /\ row.puesto # None

\* cursor.fetchone() after SELECT * FROM personas WHERE id = ?: the row with
\* its id column, or None.
SelectById(t, id) ==
    IF id \in DOMAIN t
    THEN Some(Persona(id, t[id].nombre, t[id].edad, t[id].puesto))
    ELSE None

\* The rowids of the table in ascending order: the order of a table scan.
RECURSIVE RowidsFrom(_, _)
RowidsFrom(t, lo) ==
    IF \A i \in DOMAIN t : i < lo
    THEN <<>>
    ELSE LET i == CHOOSE k \in DOMAIN t : k >= lo /\ \A j \in DOMAIN t : j >= lo => k <= j
         IN  <<i>> \o RowidsFrom(t, i + 1)

TableScan(t) ==
    LET ids == RowidsFrom(t, 1)
    IN  [k \in 1..Len(ids) |-> SelectById(t, ids[k])[1]]

\* LIMIT a OFFSET b with the two parameters bound the other way round.
LimitOffsetCambiados(rows, limit, offset) ==
    LET off   == IF limit < 0 THEN 0 ELSE limit
        resto == SubSeq(rows, off + 1, Len(rows))
    IN  IF offset < 0 THEN resto ELSE SubSeq(resto, 1, Min(offset, Len(resto)))

\* LIMIT ? OFFSET ?: skip the first offset rows (a negative offset skips none),
\* then keep at most limit rows (a negative limit keeps all).
LimitOffset(rows, limit, offset) ==
    LET off   == IF offset < 0 THEN 0 ELSE offset
        resto == SubSeq(rows, off + 1, Len(rows))
    IN  IF limit < 0 THEN resto ELSE SubSeq(resto, 1, Min(limit, Len(resto)))

\* persona_update.dict(): every field, the unset ones as None.
UpdateDataSinExcludeUnset(pu) == [c \in Campos |-> pu[c]]

\* persona_update.dict(exclude_unset=True): only the fields the body supplied,
\* a supplied null included.
UpdateData(pu) == [c \in pu.fields_set |-> pu[c]]

\* UPDATE personas SET <field = ? for each field of update_data> WHERE id = ?:
\* the row after the assignment.
SetClauses(row, update_data) ==
    [nombre |-> IF "nombre" \in DOMAIN update_data THEN update_data["nombre"] ELSE row.nombre,
     edad   |-> IF "edad" \in DOMAIN update_data THEN update_data["edad"] ELSE row.edad,
     puesto |-> IF "puesto" \in DOMAIN update_data THEN update_data["puesto"] ELSE row.puesto]

\* The table t with row stored under rowid id.
Put(t, id, row) == [i \in DOMAIN t \cup {id} |-> IF i = id THEN row ELSE t[i]]

\* The table t without the row of rowid id.
Remove(t, id) == [i \in DOMAIN t \ {id} |-> t[i]]

\* ------------------------------------------------------- request frames
\* A response: the status code, the exception behind an error ("" if none),
\* and the records of the body (one for create/get/update/delete, the page
\* for list, none for an error).
Response(status, error, body) == [status |-> status, error |-> error, body |-> body]
NotFound == Response(404, "HTTPException", <<>>)

\* Persona(id=row["id"], nombre=row["nombre"], edad=row["edad"], puesto=row["puesto"])
\* with two columns exchanged.
PersonaDeRowCruzada(row) == Persona(row.id, row.puesto, row.edad, row.nombre)

\* Persona(id=row["id"], nombre=row["nombre"], edad=row["edad"], puesto=row["puesto"])
PersonaDeRow(row) == Persona(row.id, row.nombre, row.edad, row.puesto)

\* A thread with no request.  A frame holds the handler's position, whether
\* its connection is open, its arguments persona_id and persona_update, and
\* row, the snapshot delete returns (update never reads its row again).
Idle == [pc |-> "idle", conn |-> FALSE, persona_id |-> 0, persona |-> NoBody, row |-> None]

\* A context manager that closes only when the block ends normally.
get_db_connection_exit_sin_finally(raised) == raised

\* get_db_connection, leaving the with block: `finally: conn.close()` closes
\* the connection whether or not the block raised.  The value is whether the
\* connection is still open.
get_db_connection_exit(raised) == FALSE

\* The handler returns or raises: the with block is left and the thread is free.
Return(res) == [Idle EXCEPT !.conn = get_db_connection_exit(res.status # 200)]

\* What `ultima` records of a returned request: the operation, its path id
\* (0 if none), its body (NoBody if none), its skip and limit (0 if none),
\* the rows its last write statement matched (cursor.rowcount, -1 if it ran
\* none) and the response.
Answer(op, persona_id, persona, rowcount, res) ==
    [op |-> op, persona_id |-> persona_id, persona |-> persona, skip |-> 0, limit |-> 0,
     rowcount |-> rowcount, res |-> res]

\* The step returned no response.
NoAnswer == Answer("none", 0, NoBody, -1, Response(0, "", <<>>))

Init ==
    /\ personas = <<>>
    /\ secuencia = 0
    /\ req = [r \in Reqs |-> Idle]
    /\ ultima = NoAnswer
    /\ intacto = <<>>
    /\ asignados = {}
    /\ eliminados = {}

\* ------------------------------------------------------------- handlers
\* A request arrives at a free thread; the handler opens its connection
\* (`with get_db_connection() as conn`).  One action per route.
get_db_connection_enter(r, pc) ==
    /\ req[r].pc = "idle"
    /\ req' = [req EXCEPT ![r] = [Idle EXCEPT !.pc = pc, !.conn = TRUE]]
    /\ ultima' = NoAnswer
    /\ UNCHANGED <<personas, secuencia, intacto, asignados, eliminados>>

\* Ids not yet handed out that in-flight creates will take.
PendingCreates == Cardinality({r \in Reqs : req[r].pc = "c_insert"})

\* POST /personas/
crear_persona_enter(r) == secuencia + PendingCreates < MaxId /\ get_db_connection_enter(r, "c_insert")

\* INSERT INTO personas (nombre, edad, puesto) VALUES (?, ?, ?); commit;
\* persona_id = cursor.lastrowid; return Persona(id=persona_id, ...).
crear_persona_insert(r) ==
    /\ req[r].pc = "c_insert"
    /\ \E persona \in PersonaCreate :
         LET row == [nombre |-> persona.nombre, edad |-> persona.edad, puesto |-> persona.puesto]
             lastrowid == NextRowid(personas, secuencia)
         IN  IF NotNullOk(row)
             THEN /\ personas' = Put(personas, lastrowid, row)
                  /\ secuencia' = lastrowid
                  /\ intacto' = Put(intacto, lastrowid, persona)
                  /\ asignados' = asignados \cup {lastrowid}
                  /\ LET res == Response(200, "", <<Persona(lastrowid, persona.nombre,
                                                            persona.edad, persona.puesto)>>)
                     IN  /\ ultima' = Answer("crear", 0, persona, 1, res)
                         /\ req' = [req EXCEPT ![r] = Return(res)]
             ELSE /\ LET res == Response(500, "IntegrityError", <<>>)
                     IN  /\ ultima' = Answer("crear", 0, persona, -1, res)
                         /\ req' = [req EXCEPT ![r] = Return(res)]
                  /\ UNCHANGED <<personas, secuencia, intacto, asignados>>
    /\ UNCHANGED eliminados

\* GET /personas/
obtener_equipo_enter(r) == get_db_connection_enter(r, "l_select")

\* SELECT * FROM personas LIMIT ? OFFSET ? bound to (limit, skip); fetchall.
\* Neither query parameter is validated.
obtener_equipo_select(r) ==
    /\ req[r].pc = "l_select"
    /\ \E skip \in 0..MaxSkip, limit \in 0..MaxLimit :
         LET rows == LimitOffset(TableScan(personas), limit, skip)
             res == Response(200, "", [k \in 1..Len(rows) |-> PersonaDeRow(rows[k])])
         IN  /\ ultima' = [Answer("listar", 0, NoBody, -1, res) EXCEPT !.skip = skip, !.limit = limit]
             /\ req' = [req EXCEPT ![r] = Return(res)]
    /\ UNCHANGED <<personas, secuencia, intacto, asignados, eliminados>>

\* GET /personas/{persona_id}
obtener_persona_enter(r) == get_db_connection_enter(r, "o_select")

\* SELECT * FROM personas WHERE id = ?; fetchone; the record or a 404.
obtener_persona_select(r) ==
    /\ req[r].pc = "o_select"
    /\ \E persona_id \in Ids :
         LET row == SelectById(personas, persona_id)
             res == IF row # None THEN Response(200, "", <<PersonaDeRow(row[1])>>) ELSE NotFound
         IN  /\ ultima' = Answer("obtener", persona_id, NoBody, -1, res)
             /\ req' = [req EXCEPT ![r] = Return(res)]
    /\ UNCHANGED <<personas, secuencia, intacto, asignados, eliminados>>

\* PUT /personas/{persona_id}
actualizar_persona_enter(r) == get_db_connection_enter(r, "a_select")

\* SELECT the row; 404 if there is none; the row as read if the body
\* supplied no field.  The body may supply any subset of the fields.
actualizar_persona_select(r) ==
    /\ req[r].pc = "a_select"
    /\ \E persona_id \in Ids, persona_update \in PersonaUpdate :
         LET row == SelectById(personas, persona_id)
             update_data == UpdateData(persona_update)
         IN  IF row = None
             THEN /\ ultima' = Answer("actualizar", persona_id, persona_update, -1, NotFound)
                  /\ req' = [req EXCEPT ![r] = Return(NotFound)]
             ELSE IF DOMAIN update_data = {}
             THEN LET res == Response(200, "", <<PersonaDeRow(row[1])>>)
                  IN  /\ ultima' = Answer("actualizar", persona_id, persona_update, -1, res)
                      /\ req' = [req EXCEPT ![r] = Return(res)]
             ELSE /\ req' = [req EXCEPT ![r] = [@ EXCEPT !.pc = "a_update",
                                  !.persona_id = persona_id, !.persona = persona_update]]
                  /\ ultima' = NoAnswer
    /\ UNCHANGED <<personas, secuencia, intacto, asignados, eliminados>>

\* UPDATE personas SET ... WHERE id = ?; commit.  A row that is gone by now
\* matches nothing (rowcount 0); a NULL for a NOT NULL column raises.
actualizar_persona_update(r) ==
    /\ req[r].pc = "a_update"
    /\ LET id == req[r].persona_id
           update_data == UpdateData(req[r].persona)
       IN  /\ intacto' = Remove(intacto, id)
           /\ IF id \notin DOMAIN personas
              THEN /\ req' = [req EXCEPT ![r] = [@ EXCEPT !.pc = "a_reselect0"]]
                   /\ ultima' = NoAnswer
                   /\ UNCHANGED personas
              ELSE LET nueva == SetClauses(personas[id], update_data)
                   IN  IF NotNullOk(nueva)
                       THEN /\ personas' = Put(personas, id, nueva)
                            /\ req' = [req EXCEPT ![r] = [@ EXCEPT !.pc = "a_reselect1"]]
                            /\ ultima' = NoAnswer
                       ELSE LET res == Response(500, "IntegrityError", <<>>)
                            IN  /\ ultima' = Answer("actualizar", id, req[r].persona, -1, res)
                                /\ req' = [req EXCEPT ![r] = Return(res)]
                                /\ UNCHANGED personas
    /\ UNCHANGED <<secuencia, asignados, eliminados>>

\* SELECT the row again and return it; subscripting None raises TypeError.
\* (The pc keeps cursor.rowcount of the UPDATE: a_reselect0 or a_reselect1.)
actualizar_persona_reselect(r) ==
    /\ req[r].pc \in {"a_reselect0", "a_reselect1"}
    /\ LET updated_row == SelectById(personas, req[r].persona_id)
           rowcount == IF req[r].pc = "a_reselect1" THEN 1 ELSE 0
           res == IF updated_row = None
                  THEN Response(500, "TypeError", <<>>)
                  ELSE Response(200, "", <<PersonaDeRow(updated_row[1])>>)
       IN  /\ ultima' = Answer("actualizar", req[r].persona_id, req[r].persona, rowcount, res)
           /\ req' = [req EXCEPT ![r] = Return(res)]
    /\ UNCHANGED <<personas, secuencia, intacto, asignados, eliminados>>

\* DELETE /personas/{persona_id}
eliminar_persona_enter(r) == get_db_connection_enter(r, "e_select")

\* SELECT the row; 404 if there is none.
eliminar_persona_select(r) ==
    /\ req[r].pc = "e_select"
    /\ \E persona_id \in Ids :
         LET row == SelectById(personas, persona_id)
         IN  IF row = None
             THEN /\ ultima' = Answer("eliminar", persona_id, NoBody, -1, NotFound)
                  /\ req' = [req EXCEPT ![r] = Return(NotFound)]
             ELSE /\ req' = [req EXCEPT ![r] = [@ EXCEPT !.pc = "e_delete", !.row = row,
                                                         !.persona_id = persona_id]]
                  /\ ultima' = NoAnswer
    /\ UNCHANGED <<personas, secuencia, intacto, asignados, eliminados>>

\* DELETE FROM personas WHERE id = ?; commit; return the row read earlier
\* ("persona_eliminada").
eliminar_persona_delete(r) ==
    /\ req[r].pc = "e_delete"
    /\ LET id == req[r].persona_id
           row == req[r].row[1]
           rowcount == IF id \in DOMAIN personas THEN 1 ELSE 0
           res == Response(200, "", <<Persona(row.id, row.nombre, row.edad, row.puesto)>>)
       IN  /\ personas' = Remove(personas, id)
           /\ intacto' = Remove(intacto, id)
           /\ eliminados' = eliminados \cup {id}
           /\ ultima' = Answer("eliminar", id, NoBody, rowcount, res)
           /\ req' = [req EXCEPT ![r] = Return(res)]
    /\ UNCHANGED <<secuencia, asignados>>

Next ==
    \E r \in Reqs :
        \/ crear_persona_enter(r)
        \/ crear_persona_insert(r)
        \/ obtener_equipo_enter(r)
        \/ obtener_equipo_select(r)
        \/ obtener_persona_enter(r)
        \/ obtener_persona_select(r)
        \/ actualizar_persona_enter(r)
        \/ actualizar_persona_select(r)
        \/ actualizar_persona_update(r)
        \/ actualizar_persona_reselect(r)
        \/ eliminar_persona_enter(r)
        \/ eliminar_persona_select(r)
        \/ eliminar_persona_delete(r)

Spec == Init /\ [][Next]_vars

\* ---------------------------------------------------------------- claims
\* The stored row of id as a response record.
Stored(id) == Persona(id, personas[id].nombre, personas[id].edad, personas[id].puesto)

\* The step is request r running the statement at pc `from`.
Step(r, from) == req[r].pc = from /\ req'[r].pc # from

\* C1: a get, update or delete whose target id has no row (at its last
\* statement; for a delete, whose DELETE matched no row) ends with NotFound
\* and with no other outcome, in every interleaving.
C1_AbsentIdIsNotFound ==
    (/\ ultima.op \in {"obtener", "actualizar", "eliminar"}
     /\ IF ultima.op = "eliminar"
        THEN ultima.rowcount # 1
        ELSE ultima.persona_id \notin DOMAIN personas)
    => ultima.res = NotFound

\* C2: each operation is atomic; in particular the record an update returns
\* is the stored row right after that update's own change, so it carries the
\* value the update supplied for every field it supplied.
C2_UpdateReturnsOwnChange ==
    (ultima.op = "actualizar" /\ ultima.res.status = 200)
    => \A c \in ultima.persona.fields_set : ultima.res.body[1][c] = ultima.persona[c]

\* C3 (the UPDATE statement): on an existing id, a body whose supplied values
\* are not null stores the supplied value for each supplied field and leaves
\* every other field, every other row and the set of ids as they were; a body
\* with a null is rejected and the table is left as it was.
C3_UpdateStep(r) ==
    LET id == req[r].persona_id
        body == req[r].persona
    IN  (Step(r, "a_update") /\ id \in DOMAIN personas)
        => IF \A c \in body.fields_set : body[c] # None
           THEN /\ DOMAIN personas' = DOMAIN personas
                /\ \A c \in body.fields_set : personas'[id][c] = body[c]
                /\ \A c \in Campos \ body.fields_set : personas'[id][c] = personas[id][c]
                /\ \A i \in DOMAIN personas \ {id} : personas'[i] = personas[i]
                /\ req'[r].pc = "a_reselect1"
           ELSE personas' = personas /\ ultima'.res.error = "IntegrityError"

\* C3 (the first SELECT): with an empty field set the handler returns the
\* stored record as a success and runs no write; with a non-empty one it
\* goes on to the UPDATE.  Neither writes the table.
C3_SelectStep(r) ==
    Step(r, "a_select")
    => /\ personas' = personas
       /\ (ultima'.op = "actualizar" /\ ultima'.persona_id \in DOMAIN personas)
          => /\ ultima'.persona.fields_set = {}
             /\ ultima'.rowcount = -1
             /\ ultima'.res = Response(200, "", <<Stored(ultima'.persona_id)>>)
       /\ req'[r].pc = "a_update"
          => req'[r].persona.fields_set # {} /\ req'[r].persona_id \in DOMAIN personas

\* C3 (the response): a successful update returns the row stored under its
\* id, read after its UPDATE.
C3_Returned ==
    (ultima.op = "actualizar" /\ ultima.res.status = 200)
    => /\ ultima.persona_id \in DOMAIN personas
       /\ ultima.res.body = <<Stored(ultima.persona_id)>>
       /\ ultima.persona.fields_set # {} => ultima.rowcount = 1

\* C3: update(id, S) on an existing id is a merge-patch for every subset S of
\* {nombre, edad, puesto}; an empty S writes nothing and returns the record
\* unchanged; the returned record equals the stored row.
C3_MergePatch ==
    /\ [][\A r \in Reqs : C3_UpdateStep(r) /\ C3_SelectStep(r)]_vars
    /\ []C3_Returned

\* C3 witness: an update of edad alone has returned, with the stored nombre
\* and puesto still those of the creation body.
C3_Witness ==
    /\ ultima.op = "actualizar"
    /\ ultima.res.status = 200
    /\ ultima.persona.fields_set = {"edad"}
    /\ ultima.res.body[1].edad = Some(31)
    /\ ultima.res.body[1].nombre = Some("Ana")
    /\ ultima.res.body[1].puesto = Some("Dev")

\* C4 (one step): an id that enters the table is greater than every id ever
\* given out, it is the id the create returns, and no other step adds an id
\* or moves a row to another id.
C4_Step ==
    /\ \A id \in DOMAIN personas' \ DOMAIN personas :
         /\ \A j \in asignados \cup DOMAIN personas : id > j
         /\ ultima'.op = "crear"
         /\ ultima'.res.status = 200
         /\ ultima'.res.body[1].id = id
    /\ (ultima'.op = "crear" /\ ultima'.res.status = 200)
       => /\ DOMAIN personas' = DOMAIN personas \cup {ultima'.res.body[1].id}
          /\ ultima'.res.body[1].id \notin DOMAIN personas
          /\ \A i \in DOMAIN personas : personas'[i] = personas[i]
    /\ ultima'.op # "crear" => DOMAIN personas' \subseteq DOMAIN personas
    /\ (ultima'.op \in {"obtener", "actualizar", "eliminar"} /\ ultima'.res.status = 200)
       => ultima'.res.body[1].id = ultima'.persona_id

\* C4: ids are unique and strictly increasing in creation order: every create
\* returns an id greater than every id given out before, also after deletes,
\* and no operation changes the id of a row.
C4_IdsIncrease == [][C4_Step]_vars

\* C4 witness: after the row with the highest id (1) was deleted, leaving the
\* table empty, a create has returned id 2.
C4_Witness ==
    /\ ultima.op = "crear"
    /\ ultima.res.status = 200
    /\ ultima.res.body[1].id = 2
    /\ 1 \in eliminados
    /\ DOMAIN personas = {2}

\* C5: a delete of an existing id returns the record as it was stored
\* immediately before the removal.
C5_DeleteReturnsRemovedRow ==
    [][\A r \in Reqs :
         (Step(r, "e_delete") /\ req[r].persona_id \in DOMAIN personas)
         => ultima'.res.body = <<Stored(req[r].persona_id)>>]_vars

\* C6: a get of an id that was created and that no update or delete statement
\* has since been run on succeeds with the id and the fields create was given,
\* and create returned those same fields.
C6_CreateThenGet ==
    /\ (ultima.op = "obtener" /\ ultima.persona_id \in DOMAIN intacto)
       => LET b == intacto[ultima.persona_id]
          IN  ultima.res =
                Response(200, "", <<Persona(ultima.persona_id, b.nombre, b.edad, b.puesto)>>)
    /\ (ultima.op = "crear" /\ ultima.res.status = 200)
       => LET p == ultima.res.body[1]
          IN  /\ p.id \in DOMAIN intacto
              /\ intacto[p.id] = ultima.persona
              /\ p = Persona(p.id, ultima.persona.nombre, ultima.persona.edad,
                             ultima.persona.puesto)

\* C6 witness: a get of id 2, created after id 1 was created and deleted, has
\* returned a body with different nombre and puesto.
C6_Witness ==
    /\ ultima.op = "obtener"
    /\ ultima.persona_id = 2
    /\ 2 \in DOMAIN intacto
    /\ 1 \in eliminados
    /\ ultima.res.status = 200
    /\ ultima.res.body[1].nombre = Some("Ana")
    /\ ultima.res.body[1].puesto = Some("")

\* C7: list(skip, limit) with skip >= 0 and limit > 0 succeeds with the stored
\* rows in ascending id order, the first skip left out and at most limit
\* returned: min(max(N - skip, 0), limit) entries of N rows.
C7_ListPage ==
    (ultima.op = "listar" /\ ultima.skip >= 0 /\ ultima.limit > 0)
    => LET N == Cardinality(DOMAIN personas)
           body == ultima.res.body
       IN  /\ ultima.res.status = 200
           /\ Len(body) = Min(Max(N - ultima.skip, 0), ultima.limit)
           /\ \A k \in 1..Len(body) :
                /\ body[k].id \in DOMAIN personas
                /\ Cardinality({j \in DOMAIN personas : j < body[k].id}) = ultima.skip + k - 1
                /\ body[k] = Stored(body[k].id)

\* C7 witness: with two rows stored, list(skip = 1, limit = 1) has returned
\* the second row alone.
C7_Witness ==
    /\ ultima.op = "listar"
    /\ ultima.skip = 1
    /\ ultima.limit = 1
    /\ DOMAIN personas = {1, 2}
    /\ Len(ultima.res.body) = 1
    /\ ultima.res.body[1].id = 2

\* C8 as stated: every stored row has a non-empty nombre and a non-empty puesto.
C8_NonEmptyText ==
    \A id \in DOMAIN personas :
        /\ personas[id].nombre \notin {None, Some("")}
        /\ personas[id].puesto \notin {None, Some("")}

\* C8 as amended: every stored row has a nombre, an edad and a puesto that are
\* not null (nombre and puesto may be the empty string), and the edad is an
\* integer.
C8_NotNull ==
    \A id \in DOMAIN personas :
        /\ personas[id].nombre # None
        /\ personas[id].puesto # None
        /\ personas[id].edad # None
        /\ personas[id].edad[1] \in Int

\* C8 witness: an update that supplied a null nombre has been rejected and the
\* row still has its nombre.
C8_Witness ==
    /\ ultima.op = "actualizar"
    /\ "nombre" \in ultima.persona.fields_set
    /\ ultima.persona.nombre = None
    /\ ultima.res.error = "IntegrityError"
    /\ ultima.persona_id \in DOMAIN personas
    /\ personas[ultima.persona_id].nombre = Some("")

\* C9: a request holds an open connection exactly while its handler runs: it
\* is opened on entry and closed on every exit, normal or not, so with no
\* handler running no connection is open.
C9_ConnectionScoped == \A r \in Reqs : req[r].conn <=> req[r].pc # "idle"

\* C9 witness: a handler has just left by an exception other than NotFound
\* and no connection is open.
C9_Witness ==
    /\ ultima.res.status = 500
    /\ \A r \in Reqs : req[r].pc = "idle" /\ ~req[r].conn

\* C10: of the deletes of one id at most one returns success; a record is
\* reported as deleted at most once.
C10_DeletedAtMostOnce ==
    [][(ultima'.op = "eliminar" /\ ultima'.res.status = 200)
       => ultima'.persona_id \notin eliminados]_vars

====
